---- MODULE Spec2Model ----
(***************************************************************************)
(* Bio.KEGG.Enzyme: the Record, its writer, the event consumer, the parser *)
(* and the record iterator, as state machines.                             *)
(*                                                                         *)
(* A Python string is a sequence of one-character strings, a Python list   *)
(* or tuple a sequence of values; "" and [] are both <<>>.  A call that    *)
(* raises is a result [exc |-> TRUE, ...].                                 *)
(***************************************************************************)
EXTENDS Naturals, Sequences, FiniteSets, TLC

VARIABLES
    consumer,   \* the _Consumer under test
    last,       \* the last callback made on it: tag, values, raised or not
    nEvents,    \* how many callbacks were made on it
    trace,      \* Spec: every group sub-event fed so far, in order
    recent,     \* Spec: for each simple tag, the callbacks that returned
    sched,      \* SpecInterleave: two event sequences and how far each got
    uw,         \* SpecUnwrap: the call of _unwrap and its result
    it,         \* SpecIter: the Iterator (its reader and its parser)
    parser,     \* SpecIter: the Parser (its _consumer)
    heap,       \* SpecIter: the Record objects allocated so far
    calls,      \* SpecIter: the next()/parse() calls made and their results
    feeds,      \* SpecIter: the texts handed to _Scanner.feed, in order
    stream,     \* SpecIter: the records the handle held at construction
    rt          \* SpecRoundTrip: a Record, its text and the Record parsed back

vars ==
    <<consumer, last, nEvents, trace, recent, sched, uw, it, parser, heap, calls, feeds,
      stream, rt>>

-----------------------------------------------------------------------------
(* Strings *)

NL == "\n"
SP == " "
DOLLAR == "$"

\* the characters str.lstrip() and str.strip() remove
Whitespace == {" ", "\t", "\n", "\r", "\f"}

RECURSIVE lstrip(_)
lstrip(s) ==
    IF s # <<>> /\ Head(s) \in Whitespace THEN lstrip(Tail(s)) ELSE s

RECURSIVE rstrip(_)
rstrip(s) ==
    IF s # <<>> /\ s[Len(s)] \in Whitespace
    THEN rstrip(SubSeq(s, 1, Len(s) - 1)) ELSE s

strip(s) == lstrip(rstrip(s))

\* s.split(ch): the pieces of s between the occurrences of ch
RECURSIVE split(_, _)
split(s, ch) ==
    IF \A i \in 1..Len(s) : s[i] # ch
    THEN <<s>>
    ELSE LET k == CHOOSE i \in 1..Len(s) :
                      s[i] = ch /\ \A j \in 1..(i - 1) : s[j] # ch
         IN  <<SubSeq(s, 1, k - 1)>> \o split(SubSeq(s, k + 1, Len(s)), ch)

\* sep.join(list)
RECURSIVE join(_, _)
join(sep, list) ==
    IF list = <<>> THEN <<>>
    ELSE IF Len(list) = 1 THEN list[1]
    ELSE list[1] \o sep \o join(sep, Tail(list))

\* _strip(line_list): [x.strip() for x in line_list]
_strip(line_list) == [i \in 1..Len(line_list) |-> strip(line_list[i])]

-----------------------------------------------------------------------------
(* _Consumer._unwrap *)

Raised == [exc |-> TRUE, s |-> <<>>]
Returned(s) == [exc |-> FALSE, s |-> s]

\* One pass of the loop body for the physical line l0, s being the text
\* accumulated so far.  l[0] on an empty line and s[-1] on an empty s raise
\* IndexError; `and' evaluates left to right and stops at the first false.
unwrap_line(s, l0, add_space) ==
    LET l == lstrip(l0) IN
    IF add_space
    THEN IF l = <<>> THEN Raised
         ELSE IF l[1] # DOLLAR
              THEN IF s = <<>> THEN Raised
                   ELSE IF s[Len(s)] # SP THEN Returned(s \o <<SP>> \o l)
                   ELSE Returned(s \o l)
              ELSE Returned(s \o Tail(l))
    ELSE IF l = <<>> THEN Raised
         ELSE IF l[1] = DOLLAR THEN Returned(s \o Tail(l))
         ELSE Returned(s \o l)

RECURSIVE unwrap_loop(_, _, _)
unwrap_loop(s, lines, add_space) ==
    IF lines = <<>> THEN Returned(s)
    ELSE LET r == unwrap_line(s, Head(lines), add_space) IN
         IF r.exc THEN Raised
         ELSE unwrap_loop(r.s, Tail(lines), add_space)

_unwrap(data, add_space) ==
    LET lines == split(data, NL) IN
    IF Len(lines) = 1 THEN Returned(data)
    ELSE unwrap_loop(<<>>, lines, add_space)

\* map(self._unwrap, values): raises as soon as one value does
map_unwrap(values) ==
    IF \E i \in 1..Len(values) : _unwrap(values[i], FALSE).exc
    THEN [exc |-> TRUE, list |-> <<>>]
    ELSE [exc |-> FALSE,
          list |-> [i \in 1..Len(values) |-> _unwrap(values[i], FALSE).s]]

-----------------------------------------------------------------------------
(* Record and _Consumer *)

Record ==
    [entry |-> <<>>, name |-> <<>>, classname |-> <<>>, sysname |-> <<>>,
     reaction |-> <<>>, substrate |-> <<>>, product |-> <<>>,
     inhibitor |-> <<>>, cofactor |-> <<>>, effector |-> <<>>,
     comment |-> <<>>, pathway |-> <<>>, genes |-> <<>>, disease |-> <<>>,
     motif |-> <<>>, structures |-> <<>>, dblinks |-> <<>>]

_Consumer ==
    [data |-> Record,
     _current_path |-> <<>>,
     _current_organism |-> <<>>,
     _current_motif |-> <<>>,
     _current_disease |-> <<>>,
     _current_dblinks |-> <<>>,
     _current_structure_db |-> <<>>]

Ok(c) == [exc |-> FALSE, c |-> c]
Exc(c) == [exc |-> TRUE, c |-> c]

\* (mutant) the prefix is left on the entry
entry_whole(c, v) == Ok([c EXCEPT !.data.entry = v[1]])

\* The callbacks: c is the consumer, v the list of values of the event.
entry(c, v) == Ok([c EXCEPT !.data.entry = SubSeq(v[1], 4, Len(v[1]))])

name(c, v) ==
    LET m == map_unwrap(v) IN
    IF m.exc THEN Exc(c) ELSE Ok([c EXCEPT !.data.name = m.list])

classname(c, v) == Ok([c EXCEPT !.data.classname = v])

sysname(c, v) ==
    LET m == map_unwrap(v) IN
    IF m.exc THEN Exc(c) ELSE Ok([c EXCEPT !.data.sysname = m.list])

\* (mutant) the reaction is unwrapped like a name
reaction_unwrapped(c, v) ==
    LET m == map_unwrap(v) IN
    IF m.exc THEN Exc(c) ELSE Ok([c EXCEPT !.data.reaction = m.list])

reaction(c, v) == Ok([c EXCEPT !.data.reaction = v])

substrate(c, v) ==
    LET m == map_unwrap(v) IN
    IF m.exc THEN Exc(c) ELSE Ok([c EXCEPT !.data.substrate = m.list])

product(c, v) ==
    LET m == map_unwrap(v) IN
    IF m.exc THEN Exc(c) ELSE Ok([c EXCEPT !.data.product = m.list])

inhibitor(c, v) ==
    LET m == map_unwrap(v) IN
    IF m.exc THEN Exc(c) ELSE Ok([c EXCEPT !.data.inhibitor = m.list])

cofactor(c, v) ==
    LET m == map_unwrap(v) IN
    IF m.exc THEN Exc(c) ELSE Ok([c EXCEPT !.data.cofactor = m.list])

effector(c, v) ==
    LET m == map_unwrap(v) IN
    IF m.exc THEN Exc(c) ELSE Ok([c EXCEPT !.data.effector = m.list])

\* (mutant) the lines are added to the comment already there
comment_append(c, v) == Ok([c EXCEPT !.data.comment = @ \o v])

comment(c, v) == Ok([c EXCEPT !.data.comment = v])

pathway_db(c, v) ==
    Ok([c EXCEPT !._current_path = Append(@, v[1])])

\* (mutant) the tuple is appended as soon as the id arrives
pathway_id_flush(c, v) ==
    Ok([c EXCEPT !.data.pathway = Append(@, Append(c._current_path, v[1])),
                 !._current_path = Append(@, v[1])])

pathway_id(c, v) ==
    Ok([c EXCEPT !._current_path = Append(@, v[1])])

\* (mutant) the buffer is not cleared after the flush
pathway_desc_keep(c, v) ==
    LET path == Append(c._current_path, join(<<SP>>, v)) IN
    Ok([c EXCEPT !.data.pathway = Append(@, path),
                 !._current_path = path])

pathway_desc(c, v) ==
    LET path == Append(c._current_path, join(<<SP>>, v)) IN
    Ok([c EXCEPT !.data.pathway = Append(@, path),
                 !._current_path = <<>>])

organism(c, v) == Ok([c EXCEPT !._current_organism = v[1]])

\* (mutant) the new tuple is put in front of the list
gene_id_front(c, v) ==
    Ok([c EXCEPT !.data.genes = <<<<c._current_organism, v>>>> \o @,
                 !._current_organism = <<>>])

gene_id(c, v) ==
    Ok([c EXCEPT !.data.genes = Append(@, <<c._current_organism, v>>),
                 !._current_organism = <<>>])

disease_db(c, v) ==
    Ok([c EXCEPT !._current_disease = Append(@, v[1])])

\* (mutant) the id goes to the pathway buffer
disease_id_shared(c, v) ==
    Ok([c EXCEPT !._current_path = Append(@, v[1])])

disease_id(c, v) ==
    Ok([c EXCEPT !._current_disease = Append(@, v[1])])

disease_desc(c, v) ==
    LET dis == Append(c._current_disease, join(<<SP>>, v)) IN
    Ok([c EXCEPT !.data.disease = Append(@, dis),
                 !._current_disease = <<>>])

motif_db(c, v) ==
    Ok([c EXCEPT !._current_motif = Append(@, v[1])])

motif_id(c, v) ==
    Ok([c EXCEPT !._current_motif = Append(@, v[1])])

motif(c, v) ==
    LET u == _unwrap(v[1], FALSE) IN
    IF u.exc THEN Exc(c)
    ELSE LET mot == Append(c._current_motif, u.s) IN
         Ok([c EXCEPT !.data.motif = Append(@, mot),
                      !._current_motif = <<>>])

structure_db(c, v) == Ok([c EXCEPT !._current_structure_db = v[1]])

structure_id(c, v) ==
    Ok([c EXCEPT !.data.structures =
                     Append(@, <<c._current_structure_db, v>>),
                 !._current_structure_db = <<>>])

dblinks_db(c, v) ==
    Ok([c EXCEPT !._current_dblinks = Append(@, v[1])])

dblinks_id(c, v) ==
    LET links == Append(c._current_dblinks, v) IN
    Ok([c EXCEPT !.data.dblinks = Append(@, links),
                 !._current_dblinks = <<>>])

record_end(c, v) == Ok(c)

\* the tags _Scanner asks the grammar for
interest_tags ==
    <<"entry", "name", "classname", "sysname", "reaction", "substrate",
      "product", "inhibitor", "cofactor", "effector", "comment",
      "pathway_db", "pathway_id", "pathway_desc", "organism", "gene_id",
      "disease_db", "disease_id", "disease_desc", "motif_db", "motif_id",
      "motif", "structure_db", "structure_id", "dblinks_db", "dblinks_id",
      "record_end">>

\* EventGenerator: the callback named by the tag, on the stripped values
Dispatch(tag, c, values) ==
    LET v == _strip(values) IN
    CASE tag = "entry" -> entry(c, v)
      [] tag = "name" -> name(c, v)
      [] tag = "classname" -> classname(c, v)
      [] tag = "sysname" -> sysname(c, v)
      [] tag = "reaction" -> reaction(c, v)
      [] tag = "substrate" -> substrate(c, v)
      [] tag = "product" -> product(c, v)
      [] tag = "inhibitor" -> inhibitor(c, v)
      [] tag = "cofactor" -> cofactor(c, v)
      [] tag = "effector" -> effector(c, v)
      [] tag = "comment" -> comment(c, v)
      [] tag = "pathway_db" -> pathway_db(c, v)
      [] tag = "pathway_id" -> pathway_id(c, v)
      [] tag = "pathway_desc" -> pathway_desc(c, v)
      [] tag = "organism" -> organism(c, v)
      [] tag = "gene_id" -> gene_id(c, v)
      [] tag = "disease_db" -> disease_db(c, v)
      [] tag = "disease_id" -> disease_id(c, v)
      [] tag = "disease_desc" -> disease_desc(c, v)
      [] tag = "motif_db" -> motif_db(c, v)
      [] tag = "motif_id" -> motif_id(c, v)
      [] tag = "motif" -> motif(c, v)
      [] tag = "structure_db" -> structure_db(c, v)
      [] tag = "structure_id" -> structure_id(c, v)
      [] tag = "dblinks_db" -> dblinks_db(c, v)
      [] tag = "dblinks_id" -> dblinks_id(c, v)
      [] tag = "record_end" -> record_end(c, v)

-----------------------------------------------------------------------------
(* The events the model feeds: value lists as EventGenerator delivers them, *)
(* every value already stripped.                                            *)

Plain == <<"a">>
Wrapped == <<"a", NL, DOLLAR, "b">>
Indented == <<"a", "-", NL, SP, SP, "b">>
BlankLine == <<"a", NL, NL, "b">>

EntryValues == {<< <<"E", "C", SP, "1">> >>, << <<"E", "C", SP, "2">> >>}
TextValues == {<<Plain>>, <<Wrapped, Plain>>}
NameValues == {<<Plain>>, <<Wrapped, Plain>>, <<BlankLine>>}
DbValues == {<< <<"d">> >>, << <<"e">> >>}
IdValues == {<< <<"i">> >>}
DescValues == {<< <<"x">> >>, << <<"x">>, <<"y">> >>}
MotifValues == {<<Plain>>, <<Indented>>, <<BlankLine>>}
IdListValues == {<< <<"g">> >>, << <<"g">>, <<"k">> >>}
EndValues == {<< <<"/", "/", "/">> >>}

ValuesOf(tag) ==
    CASE tag = "entry" -> EntryValues
      [] tag \in {"classname", "reaction", "comment"} -> TextValues
      [] tag = "name" -> NameValues
      [] tag \in {"sysname", "substrate", "product", "inhibitor",
                  "cofactor", "effector"} -> TextValues
      [] tag \in {"pathway_db", "disease_db", "motif_db", "organism",
                  "structure_db", "dblinks_db"} -> DbValues
      [] tag \in {"pathway_id", "disease_id", "motif_id"} -> IdValues
      [] tag \in {"pathway_desc", "disease_desc"} -> DescValues
      [] tag = "motif" -> MotifValues
      [] tag \in {"gene_id", "structure_id", "dblinks_id"} -> IdListValues
      [] tag = "record_end" -> EndValues

NoEvent == [tag |-> "none", values |-> <<>>, raised |-> FALSE]

\* the variables of each state machine
consumerVars == <<consumer, last, nEvents, trace, recent, sched>>
unwrapVars == <<uw>>
iterVars == <<it, parser, heap, calls, feeds, stream>>
rtVars == <<rt>>

NoUnwrap == [pc |-> "idle"]
NoIter == [pc |-> "idle"]
NoRoundTrip == [pc |-> "idle"]
NoSched == [pc |-> "idle"]

\* the callbacks that assign a field of the Record
SimpleTags ==
    {"entry", "name", "classname", "sysname", "reaction", "substrate",
     "product", "inhibitor", "cofactor", "effector", "comment"}

\* recent[t]: how many calls of the simple callback t have returned, and
\* the values of the latest of them
NoRecent == [t \in SimpleTags |-> [n |-> 0, values |-> <<>>]]

RecentAfter(rec, tag, v, raised) ==
    IF tag \in SimpleTags /\ ~raised
    THEN [rec EXCEPT ![tag] = [n |-> @.n + 1, values |-> v]]
    ELSE rec

ConsumerIdle ==
    consumer = _Consumer /\ last = NoEvent /\ nEvents = 0
    /\ trace = [clean |-> TRUE, groups |-> <<>>] /\ sched = NoSched
    /\ recent = NoRecent
UnwrapIdle == uw = NoUnwrap
IterIdle ==
    it = NoIter /\ parser = NoIter /\ heap = <<>> /\ calls = <<>>
    /\ feeds = <<>> /\ stream = <<>>
RoundTripIdle == rt = NoRoundTrip

OtherIdle == UnwrapIdle /\ IterIdle /\ RoundTripIdle

-----------------------------------------------------------------------------
(* Spec: the callbacks of one _Consumer.  Any callback may be made, in any  *)
(* order, for the first MaxEvents calls; beyond that the run goes on only   *)
(* as the scanner drives it, group after group with each group's sub-events *)
(* in the order of the grammar, up to MaxGroups groups.                     *)

MaxEvents == 2
MaxGroups == 2

Kinds == {"pathway", "genes", "disease", "motif", "structures", "dblinks"}

\* the sub-events of each group, in the order the grammar emits them
GroupTags(kind) ==
    CASE kind = "pathway" -> <<"pathway_db", "pathway_id", "pathway_desc">>
      [] kind = "genes" -> <<"organism", "gene_id">>
      [] kind = "disease" -> <<"disease_db", "disease_id", "disease_desc">>
      [] kind = "motif" -> <<"motif_db", "motif_id", "motif">>
      [] kind = "structures" -> <<"structure_db", "structure_id">>
      [] kind = "dblinks" -> <<"dblinks_db", "dblinks_id">>

Complete(g) == Len(g.vals) = Len(GroupTags(g.kind))

\* trace: while every call so far was a group sub-event that arrived in
\* order and returned, the groups fed so far with the values of each
\* sub-event (the last group may be incomplete); otherwise not clean.
NoTrace == [clean |-> TRUE, groups |-> <<>>]
Dirty == [clean |-> FALSE, groups |-> <<>>]

AtBoundary(t) ==
    t.clean /\ (t.groups = <<>> \/ Complete(t.groups[Len(t.groups)]))

\* tag is the sub-event the grammar would emit next
InOrder(t, tag) ==
    /\ t.clean
    /\ IF AtBoundary(t)
       THEN \E k \in Kinds : GroupTags(k)[1] = tag
       ELSE LET g == t.groups[Len(t.groups)] IN
            GroupTags(g.kind)[Len(g.vals) + 1] = tag

TraceAfter(t, tag, v, raised) ==
    IF raised \/ ~InOrder(t, tag) THEN Dirty
    ELSE IF AtBoundary(t)
    THEN LET k == CHOOSE kk \in Kinds : GroupTags(kk)[1] = tag IN
         [t EXCEPT !.groups = Append(@, [kind |-> k, vals |-> <<v>>])]
    ELSE [t EXCEPT !.groups[Len(t.groups)].vals = Append(@, v)]

Allowed(tag) ==
    \/ nEvents < MaxEvents
    \/ /\ InOrder(trace, tag)
       /\ Len(trace.groups) + (IF AtBoundary(trace) THEN 1 ELSE 0) <= MaxGroups

Init ==
    /\ consumer = _Consumer
    /\ last = NoEvent
    /\ nEvents = 0
    /\ trace = NoTrace
    /\ recent = NoRecent
    /\ sched = NoSched
    /\ OtherIdle

\* one callback, made through the event generator
Call(tag, v) ==
    /\ Allowed(tag)
    /\ \E r \in {Dispatch(tag, consumer, v)} :
       /\ consumer' = r.c
       /\ last' = [tag |-> tag, values |-> v, raised |-> r.exc]
       /\ trace' = TraceAfter(trace, tag, v, r.exc)
       /\ recent' = RecentAfter(recent, tag, v, r.exc)
    /\ nEvents' = nEvents + 1
    /\ UNCHANGED <<sched, unwrapVars, iterVars, rtVars>>

Do_entry == \E v \in ValuesOf("entry") : Call("entry", v)
Do_name == \E v \in ValuesOf("name") : Call("name", v)
Do_classname == \E v \in ValuesOf("classname") : Call("classname", v)
Do_sysname == \E v \in ValuesOf("sysname") : Call("sysname", v)
Do_reaction == \E v \in ValuesOf("reaction") : Call("reaction", v)
Do_substrate == \E v \in ValuesOf("substrate") : Call("substrate", v)
Do_product == \E v \in ValuesOf("product") : Call("product", v)
Do_inhibitor == \E v \in ValuesOf("inhibitor") : Call("inhibitor", v)
Do_cofactor == \E v \in ValuesOf("cofactor") : Call("cofactor", v)
Do_effector == \E v \in ValuesOf("effector") : Call("effector", v)
Do_comment == \E v \in ValuesOf("comment") : Call("comment", v)
Do_pathway_db == \E v \in ValuesOf("pathway_db") : Call("pathway_db", v)
Do_pathway_id == \E v \in ValuesOf("pathway_id") : Call("pathway_id", v)
Do_pathway_desc ==
    \E v \in ValuesOf("pathway_desc") : Call("pathway_desc", v)
Do_organism == \E v \in ValuesOf("organism") : Call("organism", v)
Do_gene_id == \E v \in ValuesOf("gene_id") : Call("gene_id", v)
Do_disease_db == \E v \in ValuesOf("disease_db") : Call("disease_db", v)
Do_disease_id == \E v \in ValuesOf("disease_id") : Call("disease_id", v)
Do_disease_desc ==
    \E v \in ValuesOf("disease_desc") : Call("disease_desc", v)
Do_motif_db == \E v \in ValuesOf("motif_db") : Call("motif_db", v)
Do_motif_id == \E v \in ValuesOf("motif_id") : Call("motif_id", v)
Do_motif == \E v \in ValuesOf("motif") : Call("motif", v)
Do_structure_db ==
    \E v \in ValuesOf("structure_db") : Call("structure_db", v)
Do_structure_id ==
    \E v \in ValuesOf("structure_id") : Call("structure_id", v)
Do_dblinks_db == \E v \in ValuesOf("dblinks_db") : Call("dblinks_db", v)
Do_dblinks_id == \E v \in ValuesOf("dblinks_id") : Call("dblinks_id", v)
Do_record_end == \E v \in ValuesOf("record_end") : Call("record_end", v)

Next ==
    \/ Do_entry \/ Do_name \/ Do_classname \/ Do_sysname \/ Do_reaction
    \/ Do_substrate \/ Do_product \/ Do_inhibitor \/ Do_cofactor
    \/ Do_effector \/ Do_comment
    \/ Do_pathway_db \/ Do_pathway_id \/ Do_pathway_desc
    \/ Do_organism \/ Do_gene_id
    \/ Do_disease_db \/ Do_disease_id \/ Do_disease_desc
    \/ Do_motif_db \/ Do_motif_id \/ Do_motif
    \/ Do_structure_db \/ Do_structure_id
    \/ Do_dblinks_db \/ Do_dblinks_id
    \/ Do_record_end

Spec == Init /\ [][Next]_vars

-----------------------------------------------------------------------------
(* Claims about the consumer *)

data == consumer.data

FinalTags ==
    {"pathway_desc", "disease_desc", "motif", "gene_id", "structure_id",
     "dblinks_id"}

BufferOf(c, tag) ==
    CASE tag \in {"pathway_db", "pathway_id", "pathway_desc"}
             -> c._current_path
      [] tag \in {"disease_db", "disease_id", "disease_desc"}
             -> c._current_disease
      [] tag \in {"motif_db", "motif_id", "motif"} -> c._current_motif
      [] tag \in {"organism", "gene_id"} -> c._current_organism
      [] tag \in {"structure_db", "structure_id"} -> c._current_structure_db
      [] tag \in {"dblinks_db", "dblinks_id"} -> c._current_dblinks

AllBuffersEmpty(c) ==
    /\ c._current_path = <<>> /\ c._current_disease = <<>>
    /\ c._current_motif = <<>> /\ c._current_organism = <<>>
    /\ c._current_structure_db = <<>> /\ c._current_dblinks = <<>>

\* the tuple a complete group g stands for: the first value of the db (or
\* organism) event, the first value of the id event, and the text of the
\* final event (a description's words joined by one space, a motif
\* unwrapped), or the id list as delivered
ExpectedTuple(g) ==
    CASE g.kind \in {"pathway", "disease"}
             -> <<g.vals[1][1], g.vals[2][1], join(<<SP>>, g.vals[3])>>
      [] g.kind = "motif"
             -> <<g.vals[1][1], g.vals[2][1], _unwrap(g.vals[3][1], FALSE).s>>
      [] g.kind \in {"genes", "structures", "dblinks"}
             -> <<g.vals[1][1], g.vals[2]>>

\* C1 (as claimed): after any sequence of callbacks in any order, every
\* element of pathway, disease and motif is a 3-tuple and every element of
\* genes, structures and dblinks is a 2-tuple whose first part is the
\* (non-empty) value of a db/organism event: no partial group is in the
\* Record.
C1_NoPartialGroup ==
    /\ \A k \in {"pathway", "disease", "motif"} :
           \A i \in 1..Len(data[k]) : Len(data[k][i]) = 3
    /\ \A k \in {"genes", "structures", "dblinks"} :
           \A i \in 1..Len(data[k]) : Len(data[k][i]) = 2
    /\ \A k \in {"genes", "structures"} :
           \A i \in 1..Len(data[k]) : data[k][i][1] # <<>>

\* C2: a fresh consumer fed the db, id and final sub-event of one pathway,
\* disease or motif group in that order has the group's list empty after
\* the db event and after the id event, and holding exactly the one tuple
\* (db, id, final text) after the final event.
C2_GroupAtomicity ==
    \A k \in {"pathway", "disease", "motif"} :
        (trace.clean /\ Len(trace.groups) = 1 /\ trace.groups[1].kind = k)
        => IF Complete(trace.groups[1])
           THEN data[k] = <<ExpectedTuple(trace.groups[1])>>
           ELSE data[k] = <<>>

C2_Witness ==
    /\ trace.clean /\ Len(trace.groups) = 1
    /\ trace.groups[1].kind = "motif" /\ Complete(trace.groups[1])
    /\ last.tag = "motif" /\ last.values = <<Indented>>
    /\ data.motif = << << <<"d">>, <<"i">>, <<"a", "-", "b">> >> >>

\* C4: right after a final sub-event callback has returned, the buffer of
\* its group is empty; hence after any sequence of complete in-order groups
\* all six buffers are empty, and the tuple appended for a group holds the
\* values of that group's own sub-events only.
C4_BufferReset ==
    /\ (last.tag \in FinalTags /\ ~last.raised)
           => BufferOf(consumer, last.tag) = <<>>
    /\ AtBoundary(trace) => AllBuffersEmpty(consumer)
    /\ (AtBoundary(trace) /\ trace.groups # <<>>)
           => LET g == trace.groups[Len(trace.groups)] IN
              /\ data[g.kind] # <<>>
              /\ data[g.kind][Len(data[g.kind])] = ExpectedTuple(g)

C4_Witness ==
    /\ AtBoundary(trace) /\ Len(trace.groups) = 2
    /\ trace.groups[1].kind = "pathway" /\ trace.groups[2].kind = "pathway"
    /\ trace.groups[1].vals[1] # trace.groups[2].vals[1]
    /\ last.tag = "pathway_desc"
    /\ Len(data.pathway) = 2
    /\ consumer._current_path = <<>>

\* the tuples of the complete groups of one kind, in the order of arrival
RECURSIVE TuplesOf(_, _)
TuplesOf(groups, k) ==
    IF groups = <<>> THEN <<>>
    ELSE (IF Head(groups).kind = k /\ Complete(Head(groups))
          THEN <<ExpectedTuple(Head(groups))>> ELSE <<>>)
         \o TuplesOf(Tail(groups), k)

\* C13: after any sequence of in-order groups fed to one consumer, each
\* grouped list of the Record holds exactly the tuples of the completed
\* groups of its kind, one for each, in the order the groups arrived.
C13_ArrivalOrder ==
    trace.clean => \A k \in Kinds : data[k] = TuplesOf(trace.groups, k)

C13_Witness ==
    /\ AtBoundary(trace) /\ Len(trace.groups) = 2
    /\ trace.groups[1].kind = "genes" /\ trace.groups[2].kind = "genes"
    /\ last.tag = "gene_id"
    /\ data.genes = << << <<"d">>, <<<<"g">>>> >>,
                       << <<"e">>, <<<<"g">>, <<"k">>>> >> >>

UnwrappedTags ==
    {"name", "sysname", "substrate", "product", "inhibitor", "cofactor",
     "effector"}

RawTags == {"classname", "reaction", "comment"}

\* C14: a name, sysname, substrate, product, inhibitor, cofactor or
\* effector callback that returns has stored the list of its values each
\* passed through _unwrap (and it raises only when _unwrap does on one of
\* them); a classname, reaction or comment callback has stored the list
\* exactly as delivered, line breaks and markers kept.
C14_UnwrappedFields ==
    /\ (last.tag \in UnwrappedTags /\ ~last.raised)
           => data[last.tag] =
                  [i \in 1..Len(last.values) |->
                      _unwrap(last.values[i], FALSE).s]
    /\ (last.tag \in UnwrappedTags /\ last.raised)
           => \E i \in 1..Len(last.values) :
                  _unwrap(last.values[i], FALSE).exc
    /\ last.tag \in RawTags
           => ~last.raised /\ data[last.tag] = last.values

C14_Witness ==
    /\ nEvents = 2
    /\ last.tag = "reaction" /\ last.values = <<Wrapped, Plain>>
    /\ data.reaction = << <<"a", NL, DOLLAR, "b">>, <<"a">> >>
    /\ data.name = << <<"a", "b">>, <<"a">> >>

\* what a simple callback that returns stores for the values v
Stored(tag, v) ==
    IF tag = "entry" THEN SubSeq(v[1], 4, Len(v[1]))
    ELSE IF tag \in UnwrappedTags
    THEN [i \in 1..Len(v) |-> _unwrap(v[i], FALSE).s]
    ELSE v

LastWriterWins ==
    \A t \in SimpleTags :
        data[t] = IF recent[t].n = 0 THEN <<>>
                  ELSE Stored(t, recent[t].values)

IsPrefix(s, t) == Len(s) <= Len(t) /\ SubSeq(t, 1, Len(s)) = s

GroupedGrow == \A k \in Kinds : IsPrefix(data[k], consumer'.data[k])

\* C17: a simple-field callback replaces the value of its field: after any
\* sequence of callbacks each simple field holds what the latest callback
\* made for its tag stored (the entry without its prefix, the unwrapped or
\* the delivered value list), whatever was there before, and is as
\* constructed when there was none; the grouped lists only ever grow.
C17_LastWriterWins == []LastWriterWins /\ [][GroupedGrow]_vars

C17_Witness ==
    /\ recent["comment"].n = 2 /\ recent["name"].n = 0
    /\ last.tag = "comment" /\ last.values = <<Plain>>
    /\ data.comment = <<Plain>> /\ data.name = <<>>

-----------------------------------------------------------------------------
(* SpecUnwrap: one call of _unwrap on any text of at most MaxLen characters *)

MaxLen == 4

Alphabet == {"a", SP, DOLLAR, NL}

RECURSIVE StringsOfLen(_)
StringsOfLen(n) ==
    IF n = 0 THEN {<<>>}
    ELSE {Append(t, ch) : t \in StringsOfLen(n - 1), ch \in Alphabet}

UnwrapInputs == UNION {StringsOfLen(n) : n \in 0..MaxLen}

InitUnwrap ==
    /\ \E d \in UnwrapInputs, a \in BOOLEAN :
           uw = [pc |-> "call", data |-> d, add_space |-> a,
                 result |-> Raised]
    /\ ConsumerIdle /\ IterIdle /\ RoundTripIdle

DoUnwrap ==
    /\ uw.pc = "call"
    /\ uw' = [uw EXCEPT !.pc = "done",
                        !.result = _unwrap(uw.data, uw.add_space)]
    /\ UNCHANGED <<consumerVars, iterVars, rtVars>>

NextUnwrap == DoUnwrap

SpecUnwrap == InitUnwrap /\ [][NextUnwrap]_vars

\* the result the claim describes: the first line as given, then each later
\* line stripped on the left and joined without its `$`, or after one space
\* when add_space is set and the text so far does not end in a space
RECURSIVE ClaimedJoin(_, _, _)
ClaimedJoin(s, lines, add_space) ==
    IF lines = <<>> THEN s
    ELSE LET l == lstrip(Head(lines))
             t == IF l # <<>> /\ l[1] = DOLLAR THEN s \o Tail(l)
                  ELSE IF add_space /\ (s = <<>> \/ s[Len(s)] # SP)
                       THEN s \o <<SP>> \o l
                  ELSE s \o l
         IN  ClaimedJoin(t, Tail(lines), add_space)

ClaimedUnwrap(d, add_space) ==
    LET lines == split(d, NL) IN
    IF Len(lines) = 1 THEN d
    ELSE ClaimedJoin(Head(lines), Tail(lines), add_space)

\* C6 (as claimed): _unwrap returns a string for every text and either
\* setting of add_space: a single-line text unchanged, otherwise the first
\* line as given followed by the later lines, each stripped on the left and
\* joined tightly (leading `$` dropped) or loosely.
C6_UnwrapResult ==
    uw.pc = "done"
    => /\ ~uw.result.exc
       /\ uw.result.s = ClaimedUnwrap(uw.data, uw.add_space)

\* what does hold: a text without a newline is returned unchanged
C6_SingleLine ==
    (uw.pc = "done" /\ \A i \in 1..Len(uw.data) : uw.data[i] # NL)
    => uw.result = Returned(uw.data)

-----------------------------------------------------------------------------
(* SpecIter: an Iterator over a stream of records, with or without a       *)
(* Parser, and direct calls of Parser.parse.                               *)

MaxStream == 2
MaxCalls == 4
MaxParse == 1

Ev(tag, values) == [tag |-> tag, values |-> values]

\* What the compiled grammar makes of each record text: the events it
\* emits, in order, and whether it then fails with a parse error.
TextIds == {"ok1", "ok2", "bad", "partial"}

ScanOf(text) ==
    CASE text = "ok1" ->
           [events |-> <<Ev("entry", << <<"E", "C", SP, "1">> >>),
                         Ev("name", <<Wrapped, <<SP, "b", SP>> >>),
                         Ev("pathway_db", << <<"d">> >>),
                         Ev("pathway_id", << <<"i">> >>),
                         Ev("pathway_desc", << <<"x">>, <<"y">> >>),
                         Ev("record_end", << <<"/", "/", "/">> >>)>>,
            error |-> FALSE]
      [] text = "ok2" ->
           [events |-> <<Ev("entry", << <<"E", "C", SP, "2">> >>),
                         Ev("dblinks_db", << <<"e">> >>),
                         Ev("dblinks_id", << <<"g">> >>),
                         Ev("record_end", << <<"/", "/", "/">> >>)>>,
            error |-> FALSE]
      [] text = "bad" ->
           [events |-> <<Ev("entry", << <<"E", "C", SP, "1">> >>),
                         Ev("comment", <<Plain>>),
                         Ev("pathway_db", << <<"d">> >>)>>,
            error |-> TRUE]
      [] text = "partial" ->
           [events |-> <<Ev("entry", << <<"E", "C", SP, "2">> >>),
                         Ev("pathway_db", << <<"d">> >>),
                         Ev("organism", << <<"e">> >>),
                         Ev("record_end", << <<"/", "/", "/">> >>)>>,
            error |-> FALSE]

\* the one element of a one-element set; {e(x) : x \in {v}} computes v
\* once, however often e uses it
Only(S) == CHOOSE x \in S : TRUE

\* the events reach the consumer one by one; a callback that raises ends
\* the feed
RECURSIVE ApplyEvents(_, _)
ApplyEvents(c, events) ==
    IF events = <<>> THEN Ok(c)
    ELSE Only({IF r.exc THEN r ELSE ApplyEvents(r.c, Tail(events)) :
                  r \in {Dispatch(Head(events).tag, c, Head(events).values)}})

\* _Scanner.feed(handle, consumer): the consumer afterwards, and whether
\* the call raised
feed(text, c) ==
    Only({[exc |-> r.exc \/ ScanOf(text).error, c |-> r.c] :
             r \in {ApplyEvents(c, ScanOf(text).events)}})

Buffers(c) ==
    [_current_path |-> c._current_path,
     _current_organism |-> c._current_organism,
     _current_motif |-> c._current_motif,
     _current_disease |-> c._current_disease,
     _current_dblinks |-> c._current_dblinks,
     _current_structure_db |-> c._current_structure_db]

\* the consumer object id of parser p, its Record read from heap h
ConsumerAt(p, h) ==
    [data |-> h[p._consumer.id],
     _current_path |-> p._consumer.bufs._current_path,
     _current_organism |-> p._consumer.bufs._current_organism,
     _current_motif |-> p._consumer.bufs._current_motif,
     _current_disease |-> p._consumer.bufs._current_disease,
     _current_dblinks |-> p._consumer.bufs._current_dblinks,
     _current_structure_db |-> p._consumer.bufs._current_structure_db]

NoResult == [kind |-> "none", id |-> 0, raw |-> "None"]
RaiseResult == [kind |-> "raise", id |-> 0, raw |-> "None"]
RecordResult(id) == [kind |-> "record", id |-> id, raw |-> "None"]
RawResult(text) == [kind |-> "raw", id |-> 0, raw |-> text]

\* what a call leaves behind and returns
Outcome(p, h, fed, result) ==
    [parser |-> p, heap |-> h, fed |-> fed, result |-> result]

ParseResult(r, id) == IF r.exc THEN RaiseResult ELSE RecordResult(id)

\* (mutant) the consumer is made once and used again by every parse
parse_reuse(p, h, text) ==
    IF p._consumer.id = 0
    THEN Only({Outcome([p EXCEPT !._consumer = [id |-> Len(h) + 1,
                                                bufs |-> Buffers(r.c)]],
                       Append(h, r.c.data), <<text>>,
                       ParseResult(r, Len(h) + 1)) :
                  r \in {feed(text, _Consumer)}})
    ELSE Only({Outcome([p EXCEPT !._consumer.bufs = Buffers(r.c)],
                       [h EXCEPT ![p._consumer.id] = r.c.data], <<text>>,
                       ParseResult(r, p._consumer.id)) :
                  r \in {feed(text, ConsumerAt(p, h))}})

\* (mutant) a failed feed is tried once more on a new consumer
parse_retry(p, h, text) ==
    Only({IF r.exc
          THEN Outcome([p EXCEPT !._consumer = [id |-> Len(h) + 2,
                                                bufs |-> Buffers(r.c)]],
                       h \o <<r.c.data, r.c.data>>, <<text, text>>,
                       RaiseResult)
          ELSE Outcome([p EXCEPT !._consumer = [id |-> Len(h) + 1,
                                                bufs |-> Buffers(r.c)]],
                       Append(h, r.c.data), <<text>>,
                       RecordResult(Len(h) + 1)) :
             r \in {feed(text, _Consumer)}})

\* Parser.parse(handle), on parser p with the Records h allocated so far:
\* a new _Consumer with a new Record, one feed, and the consumer's Record
\* returned unless the feed raised.
parse(p, h, text) ==
    Only({Outcome([p EXCEPT !._consumer = [id |-> Len(h) + 1,
                                           bufs |-> Buffers(r.c)]],
                  Append(h, r.c.data), <<text>>,
                  ParseResult(r, Len(h) + 1)) :
             r \in {feed(text, _Consumer)}})

\* RecordReader.EndsWith(handle, "///").next(): the next record text, or
\* None once only whitespace is left
reader_next(reader) ==
    IF reader.recs = <<>>
    THEN [data |-> "None", reader |-> reader]
    ELSE [data |-> Head(reader.recs),
          reader |-> [reader EXCEPT !.recs = Tail(@)]]

\* what Iterator.next leaves behind and returns, rd being what the reader
\* gave and r the outcome of the parse, if one was made
Parsed(i, rd, r) ==
    [it |-> [i EXCEPT !._reader = rd.reader], data |-> rd.data,
     parser |-> r.parser, heap |-> r.heap, fed |-> r.fed,
     result |-> r.result]

Unparsed(i, rd, p, h) ==
    [it |-> [i EXCEPT !._reader = rd.reader], data |-> rd.data,
     parser |-> p, heap |-> h, fed |-> <<>>,
     result |-> IF rd.data = "None" THEN NoResult ELSE RawResult(rd.data)]

\* (mutant) the parser is called whatever the reader returned; a handle
\* cannot be made of None
next_unguarded(i, p, h) ==
    Only({IF i._parser
          THEN IF rd.data # "None"
               THEN Only({Parsed(i, rd, r) : r \in {parse(p, h, rd.data)}})
               ELSE Parsed(i, rd, Outcome(p, h, <<>>, RaiseResult))
          ELSE Unparsed(i, rd, p, h) :
             rd \in {reader_next(i._reader)}})

\* (mutant) the parser's Record is dropped and the raw text returned
next_noreturn(i, p, h) ==
    Only({IF i._parser /\ rd.data # "None"
          THEN Only({Parsed(i, rd,
                            [r EXCEPT !.result =
                                 IF @.kind = "raise" THEN @
                                 ELSE RawResult(rd.data)]) :
                        r \in {parse(p, h, rd.data)}})
          ELSE Unparsed(i, rd, p, h) :
             rd \in {reader_next(i._reader)}})

\* Iterator.next(), on iterator i, whose parser (if it has one) is p
next(i, p, h) ==
    Only({IF i._parser /\ rd.data # "None"
          THEN Only({Parsed(i, rd, r) : r \in {parse(p, h, rd.data)}})
          ELSE Unparsed(i, rd, p, h) :
             rd \in {reader_next(i._reader)}})

RECURSIVE StreamsOfLen(_)
StreamsOfLen(n) ==
    IF n = 0 THEN {<<>>}
    ELSE {Append(t, x) : t \in StreamsOfLen(n - 1), x \in TextIds}

Streams == UNION {StreamsOfLen(n) : n \in 0..MaxStream}

\* what may follow the last record of the stream
Tails == {<<>>, <<SP, NL>>}

\* Parser.__init__ and Iterator.__init__
InitIter ==
    /\ stream \in Streams
    /\ \E tail \in Tails, has_parser \in BOOLEAN :
           it = [_reader |-> [recs |-> stream, tail |-> tail],
                 _parser |-> has_parser]
    /\ parser = [_consumer |-> [id |-> 0, bufs |-> Buffers(_Consumer)]]
    /\ heap = <<>>
    /\ calls = <<>>
    /\ feeds = <<>>
    /\ ConsumerIdle /\ UnwrapIdle /\ RoundTripIdle

NumCalls(op) == Cardinality({k \in 1..Len(calls) : calls[k].op = op})

Fed(texts) == [k \in 1..Len(texts) |-> [text |-> texts[k],
                                        call |-> Len(calls) + 1]]

Iterator_next ==
    /\ NumCalls("next") < MaxCalls
    /\ \E r \in {next(it, parser, heap)} :
       /\ it' = r.it
       /\ parser' = r.parser
       /\ heap' = r.heap
       /\ feeds' = feeds \o Fed(r.fed)
       /\ calls' = Append(calls, [op |-> "next", text |-> r.data,
                                  result |-> r.result])
    /\ UNCHANGED <<stream, consumerVars, unwrapVars, rtVars>>

Parser_parse ==
    /\ NumCalls("parse") < MaxParse
    /\ \E text \in TextIds : \E r \in {parse(parser, heap, text)} :
           /\ parser' = r.parser
           /\ heap' = r.heap
           /\ feeds' = feeds \o Fed(r.fed)
           /\ calls' = Append(calls, [op |-> "parse", text |-> text,
                                      result |-> r.result])
    /\ UNCHANGED <<it, stream, consumerVars, unwrapVars, rtVars>>

NextIter == Iterator_next \/ Parser_parse

SpecIter == InitIter /\ [][NextIter]_vars

-----------------------------------------------------------------------------
(* Claims about the iterator and the parser *)

NextIdx == {k \in 1..Len(calls) : calls[k].op = "next"}

\* the k-th call is the Rank(k)-th call of next
Rank(k) == Cardinality({j \in NextIdx : j <= k})

\* the feeds the k-th call made
FeedsOf(k) == {j \in 1..Len(feeds) : feeds[j].call = k}

\* the k-th call handed a text to the parser
Parses(k) ==
    /\ calls[k].text # "None"
    /\ calls[k].op = "parse" \/ it._parser

\* the Record the events of a text make of a new consumer, and whether the
\* feed of the text raises
FreshFeed == [text \in TextIds |-> feed(text, _Consumer)]
RecordOf(text) == FreshFeed[text].c.data
Fails(text) == FreshFeed[text].exc

\* a group buffer holds data when record_end fires, and the scanner
\* reports no error
PartialTexts ==
    {text \in TextIds :
        LET evs == ScanOf(text).events IN
        /\ ~ScanOf(text).error
        /\ evs # <<>> /\ evs[Len(evs)].tag = "record_end"
        /\ \E r \in {ApplyEvents(_Consumer, SubSeq(evs, 1, Len(evs) - 1))} :
               ~r.exc /\ ~AllBuffersEmpty(r.c)}

PartialAtEnd(text) == text \in PartialTexts

C7_IteratorExhaustion ==
    \A k \in NextIdx :
        IF Rank(k) <= Len(stream)
        THEN /\ calls[k].text = stream[Rank(k)]
             /\ ~it._parser => calls[k].result = RawResult(stream[Rank(k)])
             /\ (it._parser /\ ~Fails(stream[Rank(k)]))
                    => /\ calls[k].result.kind = "record"
                       /\ heap[calls[k].result.id] = RecordOf(stream[Rank(k)])
        ELSE calls[k].result = NoResult

C7_Witness ==
    /\ stream = <<"ok1", "ok2">> /\ it._reader.tail # <<>> /\ it._parser
    /\ Len(calls) = 4 /\ NextIdx = 1..4
    /\ calls[1].result.kind = "record" /\ calls[2].result.kind = "record"
    /\ heap[calls[2].result.id].entry = <<"2">>
    /\ calls[3].result = NoResult /\ calls[4].result = NoResult

Max(a, b) == IF a >= b THEN a ELSE b

\* C8: every call of next takes exactly one record from the reader while
\* there is one; with a parser and a record text, the parser is fed that
\* text exactly once and its Record (or its exception) is the result;
\* without a parser the text is the result; the parser is not invoked once
\* the reader is exhausted.
C8_NextResult ==
    /\ Len(it._reader.recs) + Cardinality(NextIdx)
           = Max(Len(stream), Cardinality(NextIdx))
    /\ \A k \in NextIdx :
           IF it._parser /\ calls[k].text # "None"
           THEN /\ Cardinality(FeedsOf(k)) = 1
                /\ \A j \in FeedsOf(k) : feeds[j].text = calls[k].text
                /\ calls[k].result.kind \in {"record", "raise"}
                /\ calls[k].result.kind = "record"
                       <=> ~Fails(calls[k].text)
                /\ calls[k].result.kind = "record"
                       => heap[calls[k].result.id] = RecordOf(calls[k].text)
           ELSE /\ FeedsOf(k) = {}
                /\ calls[k].result =
                       IF calls[k].text = "None" THEN NoResult
                       ELSE RawResult(calls[k].text)

C8_Witness ==
    /\ stream = <<"ok1">> /\ it._parser
    /\ Len(calls) = 2 /\ NextIdx = 1..2
    /\ calls[1].result = RecordResult(1)
    /\ heap[1].name = <<<<"a", "b">>, <<"b">>>>
    /\ calls[2].result = NoResult
    /\ Len(feeds) = 1

\* C9: when the feed of a text fails, parse raises and returns no Record,
\* next raises, the text has been fed exactly once, and the following call
\* of next goes on with the following record of the stream.
C9_FailurePropagates ==
    /\ \A k \in 1..Len(calls) :
           (Parses(k) /\ Fails(calls[k].text))
           => /\ calls[k].result = RaiseResult
              /\ Cardinality(FeedsOf(k)) = 1
              /\ \A j \in FeedsOf(k) : feeds[j].text = calls[k].text
    /\ \A k \in NextIdx :
           Rank(k) <= Len(stream) => calls[k].text = stream[Rank(k)]

C9_Witness ==
    /\ stream = <<"bad", "ok2">> /\ it._parser
    /\ Len(calls) = 2 /\ NextIdx = 1..2
    /\ calls[1].result = RaiseResult
    /\ calls[2].result.kind = "record"
    /\ heap[calls[2].result.id].dblinks = << << <<"e">>, << <<"g">> >> >> >>
    /\ Len(feeds) = 2

\* the text the parser was fed last
LastFed == feeds[Len(feeds)].text

\* C10: every parse works on a new Record and new, empty buffers: the
\* Record a call returned holds the values of that call's events only, now
\* and after every later call (also after calls that failed part-way), no
\* two calls return the same Record, and the buffers of the parser's
\* consumer are those the last feed alone left.
C10_ParseIsolation ==
    /\ \A k \in 1..Len(calls) :
           calls[k].result.kind = "record"
           => heap[calls[k].result.id] = RecordOf(calls[k].text)
    /\ \A j, k \in 1..Len(calls) :
           (j # k /\ calls[j].result.kind = "record"
                 /\ calls[k].result.kind = "record")
           => calls[j].result.id # calls[k].result.id
    /\ feeds # <<>>
           => parser._consumer.bufs = Buffers(FreshFeed[LastFed].c)

C10_Witness ==
    /\ Len(calls) = 3
    /\ calls[1].op = "parse" /\ calls[1].text = "bad"
    /\ calls[1].result = RaiseResult
    /\ calls[2].op = "next" /\ calls[2].result.kind = "record"
    /\ calls[2].text = "ok1"
    /\ calls[3].op = "next" /\ calls[3].result.kind = "record"
    /\ calls[3].text = "ok2"
    /\ heap[calls[2].result.id].pathway # <<>>
    /\ heap[calls[3].result.id].pathway = <<>>

-----------------------------------------------------------------------------
(* The writer: Record.__str__, the wrapping rules and the text layout *)

\* The canonical KEGG layout: lines of 80 columns, the first 12 for the tag.
KEGG_LINE_LENGTH == 80
KEGG_ITEM_LENGTH == 12
KEGG_DATA_LENGTH == KEGG_LINE_LENGTH - KEGG_ITEM_LENGTH

Blank(n) == [i \in 1..n |-> SP]

\* a break rule (break string, continuation marker, keep the break string
\* on the line, do not drop it from the text)
BreakRule(brk, marker, keep, trail) ==
    [brk |-> brk, marker |-> marker, keep |-> keep, trail |-> trail]

WrapRule(indent, connect, rules) ==
    [indent |-> indent, connect |-> connect, rules |-> rules]

rxn_wrap ==
    WrapRule(0, <<>>, <<BreakRule(<<SP, "+", SP>>, <<>>, TRUE, TRUE),
                        BreakRule(<<SP, "=", SP>>, <<>>, TRUE, TRUE),
                        BreakRule(<<SP>>, <<DOLLAR>>, TRUE, TRUE),
                        BreakRule(<<"-">>, <<DOLLAR>>, TRUE, TRUE)>>)

name_wrap ==
    WrapRule(0, <<>>, <<BreakRule(<<SP>>, <<DOLLAR>>, TRUE, TRUE),
                        BreakRule(<<"-">>, <<DOLLAR>>, TRUE, TRUE)>>)

id_wrap(indent) ==
    WrapRule(indent, <<>>, <<BreakRule(<<SP>>, <<>>, TRUE, FALSE)>>)

struct_wrap(indent) ==
    WrapRule(indent, <<>>, <<BreakRule(<<SP, SP>>, <<>>, TRUE, TRUE)>>)

motif_wrap(indent) ==
    WrapRule(indent, <<>>, <<BreakRule(<<"-">>, <<>>, TRUE, TRUE)>>)

Min(a, b) == IF a <= b THEN a ELSE b

\* where sub starts in s: its last occurrence that ends at or before
\* position to (rfind), its first occurrence (find); 0 when there is none
rfind(s, sub, to) ==
    LET ps == {q \in 1..Len(s) :
                  /\ q + Len(sub) - 1 <= Min(to, Len(s))
                  /\ SubSeq(s, q, q + Len(sub) - 1) = sub}
    IN  IF ps = {} THEN 0 ELSE CHOOSE q \in ps : \A x \in ps : x <= q

find(s, sub) ==
    LET ps == {q \in 1..Len(s) :
                  /\ q + Len(sub) - 1 <= Len(s)
                  /\ SubSeq(s, q, q + Len(sub) - 1) = sub}
    IN  IF ps = {} THEN 0 ELSE CHOOSE q \in ps : \A x \in ps : q <= x

\* where rule b may break the line: within the data width, the break
\* string not counted when it is not kept on the line
BreakAt(line, b) ==
    rfind(line, b.brk,
          IF b.keep THEN KEGG_DATA_LENGTH ELSE KEGG_DATA_LENGTH + Len(b.brk))

\* the first rule that finds a break point in the line; 0 when none does
FirstBreak(line, rules) ==
    LET can == {k \in 1..Len(rules) : BreakAt(line, rules[k]) # 0} IN
    IF can = {} THEN 0 ELSE CHOOSE k \in can : \A x \in can : k <= x

\* _wrap_kegg(line, wrap_rule): a line longer than the data width is broken
\* by the first rule that finds a break point; the next line starts with
\* the indent and the rule's marker; a line no rule can break stays whole.
RECURSIVE _wrap_kegg(_, _)
_wrap_kegg(line, wrap_rule) ==
    IF Len(line) <= KEGG_DATA_LENGTH THEN line
    ELSE Only({
        IF k = 0 THEN line
        ELSE LET b == wrap_rule.rules[k]
                 q == BreakAt(line, b)
                 cut == (q - 1) + (IF b.keep /\ b.trail
                                   THEN Len(b.brk) ELSE 0)
                 from == cut + (IF b.trail THEN 0 ELSE Len(b.brk))
             IN  SubSeq(line, 1, cut) \o <<NL>> \o
                 Only({_wrap_kegg(rest, wrap_rule) :
                          rest \in {Blank(wrap_rule.indent) \o b.marker \o
                                    SubSeq(line, from + 1, Len(line))}}) :
        k \in {FirstBreak(line, wrap_rule.rules)}})

\* the text of one entry of a block as it stands in the file: the lines
\* after the first begin with blanks in place of the tag
RECURSIVE Margin(_)
Margin(lines) ==
    IF Len(lines) = 1 THEN lines[1]
    ELSE lines[1] \o <<NL>> \o Blank(KEGG_ITEM_LENGTH) \o Margin(Tail(lines))

\* s.splitlines()
splitlines(s) ==
    IF s = <<>> THEN <<>>
    ELSE IF s[Len(s)] = NL THEN split(SubSeq(s, 1, Len(s) - 1), NL)
    ELSE split(s, NL)

RECURSIVE FlattenLines(_)
FlattenLines(info) ==
    IF info = <<>> THEN <<>>
    ELSE splitlines(Head(info)) \o FlattenLines(Tail(info))

\* _write_kegg(item, info): one block, the tag before its first line; no
\* block when there is no line to write.  A block is kept as its tag and
\* its entries, each entry with the margin on its continuation lines.
_write_kegg(item, info) ==
    IF FlattenLines(info) = <<>> THEN <<>>
    ELSE <<[tag |-> item,
            entries |-> [k \in 1..Len(info) |-> Margin(split(info[k], NL))]]>>

WrapAll(list, wrap_rule) ==
    [k \in 1..Len(list) |-> _wrap_kegg(list[k], wrap_rule)]

_entry(r) == _write_kegg("ENTRY", <<<<"E", "C", SP>> \o r.entry>>)
_name(r) == _write_kegg("NAME", WrapAll(r.name, name_wrap))
_classname(r) == _write_kegg("CLASS", r.classname)
_sysname(r) == _write_kegg("SYSNAME", WrapAll(r.sysname, name_wrap))
_reaction(r) == _write_kegg("REACTION", WrapAll(r.reaction, rxn_wrap))
_substrate(r) == _write_kegg("SUBSTRATE", WrapAll(r.substrate, name_wrap))
_product(r) == _write_kegg("PRODUCT", WrapAll(r.product, name_wrap))
_inhibitor(r) == _write_kegg("INHIBITOR", WrapAll(r.inhibitor, name_wrap))
_cofactor(r) == _write_kegg("COFACTOR", WrapAll(r.cofactor, name_wrap))
_effector(r) == _write_kegg("EFFECTOR", WrapAll(r.effector, name_wrap))
_comment(r) == _write_kegg("COMMENT", WrapAll(r.comment, id_wrap(0)))

\* entry[0] + ": " + entry[1] + "  " + entry[2]
Triple(e) == e[1] \o <<":", SP>> \o e[2] \o <<SP, SP>> \o e[3]

_pathway(r) ==
    _write_kegg("PATHWAY",
                WrapAll([k \in 1..Len(r.pathway) |-> Triple(r.pathway[k])],
                        id_wrap(16)))

_genes(r) ==
    _write_kegg("GENES",
                WrapAll([k \in 1..Len(r.genes) |->
                            r.genes[k][1] \o <<":", SP>> \o
                            join(<<SP>>, r.genes[k][2])],
                        id_wrap(5)))

_disease(r) ==
    _write_kegg("DISEASE",
                WrapAll([k \in 1..Len(r.disease) |-> Triple(r.disease[k])],
                        id_wrap(13)))

_motif(r) ==
    _write_kegg("MOTIF",
                WrapAll([k \in 1..Len(r.motif) |-> Triple(r.motif[k])],
                        motif_wrap(13)))

_structures(r) ==
    _write_kegg("STRUCTURES",
                WrapAll([k \in 1..Len(r.structures) |->
                            r.structures[k][1] \o <<":", SP>> \o
                            join(<<SP, SP>>, r.structures[k][2]) \o
                            <<SP, SP>>],
                        struct_wrap(5)))

\* (mutant) every id of the entry is written
_dblinks_all(r) ==
    _write_kegg("DBLINKS",
                [k \in 1..Len(r.dblinks) |->
                    r.dblinks[k][1] \o <<":", SP>> \o
                    join(<<SP>>, r.dblinks[k][2])])

_dblinks(r) ==
    _write_kegg("DBLINKS",
                [k \in 1..Len(r.dblinks) |->
                    r.dblinks[k][1] \o <<":", SP>> \o r.dblinks[k][2][1]])

\* Record.__str__: the blocks in the fixed order, then "///"
__str__(r) ==
    [blocks |-> _entry(r) \o _name(r) \o _classname(r) \o _sysname(r) \o
                _reaction(r) \o _substrate(r) \o _product(r) \o
                _inhibitor(r) \o _cofactor(r) \o _effector(r) \o
                _comment(r) \o _pathway(r) \o _genes(r) \o _disease(r) \o
                _motif(r) \o _structures(r) \o _dblinks(r),
     end |-> <<"/", "/", "/">>]

-----------------------------------------------------------------------------
(* The scanner on a written text: what the record grammar makes of the     *)
(* blocks Record.__str__ writes.                                           *)

\* the pieces of s between the occurrences of the string sep
RECURSIVE splitstr(_, _)
splitstr(s, sep) ==
    IF find(s, sep) = 0 THEN <<s>>
    ELSE <<SubSeq(s, 1, find(s, sep) - 1)>> \o
         splitstr(SubSeq(s, find(s, sep) + Len(sep), Len(s)), sep)

Before(s, sep) == SubSeq(s, 1, find(s, sep) - 1)
After(s, sep) == SubSeq(s, find(s, sep) + Len(sep), Len(s))

\* "db: id  text" as the three sub-events of a group
TripleEvents(tags, e) ==
    <<Ev(tags[1], <<Before(e, <<":", SP>>)>>),
      Ev(tags[2], <<Before(After(e, <<":", SP>>), <<SP, SP>>)>>),
      Ev(tags[3], <<After(After(e, <<":", SP>>), <<SP, SP>>)>>)>>

\* "db: id id ..." as the two sub-events of a group
PairEvents(tags, e, sep) ==
    <<Ev(tags[1], <<Before(e, <<":", SP>>)>>),
      Ev(tags[2], splitstr(strip(After(e, <<":", SP>>)), sep))>>

RECURSIVE Concat(_)
Concat(seqs) == IF seqs = <<>> THEN <<>> ELSE Head(seqs) \o Concat(Tail(seqs))

BlockEvents(b) ==
    CASE b.tag = "ENTRY" -> <<Ev("entry", b.entries)>>
      [] b.tag = "NAME" -> <<Ev("name", b.entries)>>
      [] b.tag = "CLASS" -> <<Ev("classname", b.entries)>>
      [] b.tag = "SYSNAME" -> <<Ev("sysname", b.entries)>>
      [] b.tag = "REACTION" -> <<Ev("reaction", b.entries)>>
      [] b.tag = "SUBSTRATE" -> <<Ev("substrate", b.entries)>>
      [] b.tag = "PRODUCT" -> <<Ev("product", b.entries)>>
      [] b.tag = "INHIBITOR" -> <<Ev("inhibitor", b.entries)>>
      [] b.tag = "COFACTOR" -> <<Ev("cofactor", b.entries)>>
      [] b.tag = "EFFECTOR" -> <<Ev("effector", b.entries)>>
      [] b.tag = "COMMENT" -> <<Ev("comment", b.entries)>>
      [] b.tag = "PATHWAY" ->
           Concat([k \in 1..Len(b.entries) |->
                      TripleEvents(GroupTags("pathway"), b.entries[k])])
      [] b.tag = "GENES" ->
           Concat([k \in 1..Len(b.entries) |->
                      PairEvents(GroupTags("genes"), b.entries[k], <<SP>>)])
      [] b.tag = "DISEASE" ->
           Concat([k \in 1..Len(b.entries) |->
                      TripleEvents(GroupTags("disease"), b.entries[k])])
      [] b.tag = "MOTIF" ->
           Concat([k \in 1..Len(b.entries) |->
                      TripleEvents(GroupTags("motif"), b.entries[k])])
      [] b.tag = "STRUCTURES" ->
           Concat([k \in 1..Len(b.entries) |->
                      PairEvents(GroupTags("structures"), b.entries[k],
                                 <<SP, SP>>)])
      [] b.tag = "DBLINKS" ->
           Concat([k \in 1..Len(b.entries) |->
                      PairEvents(GroupTags("dblinks"), b.entries[k], <<SP>>)])

scan(text) ==
    Concat([k \in 1..Len(text.blocks) |-> BlockEvents(text.blocks[k])])
    \o <<Ev("record_end", <<text.end>>)>>

\* Parser.parse on a written text: a new consumer, the events of the text,
\* the consumer's Record
parse_text(text) ==
    Only({[exc |-> r.exc, data |-> r.c.data] :
             r \in {ApplyEvents(_Consumer, scan(text))}})

-----------------------------------------------------------------------------
(* SpecRoundTrip: a Record is written with str() and the text parsed back *)

HalfLen == 40

Short == <<"a", "b">>
LongWords == [i \in 1..HalfLen |-> "a"] \o <<SP>> \o
             [i \in 1..HalfLen |-> "b"]
LongSum == [i \in 1..HalfLen |-> "a"] \o <<SP, "+", SP>> \o
           [i \in 1..HalfLen |-> "b"]

RoundTripRecords ==
    {[Record EXCEPT !.entry = e, !.name = n, !.classname = cl,
                    !.reaction = rx, !.comment = co, !.pathway = pa,
                    !.genes = ge, !.motif = mo, !.structures = st,
                    !.dblinks = db] :
        e \in {<<>>, <<"1", ".", "2">>},
        n \in {<<>>, <<Short, LongWords>>},
        cl \in {<<>>, <<Short>>},
        rx \in {<<>>, <<Short>>, <<LongSum>>},
        co \in {<<>>, <<Short>>, <<LongWords>>},
        pa \in {<<>>, << <<<<"d">>, <<"i">>, <<"x", SP, "y">>>> >>},
        ge \in {<<>>, << <<<<"h">>, <<<<"g">>, <<"k">>>>>> >>},
        mo \in {<<>>, << <<<<"d">>, <<"i">>, <<"a", "-", "b">>>> >>},
        st \in {<<>>, << <<<<"d">>, <<<<"g">>, <<"k">>>>>> >>},
        db \in {<<>>, << <<<<"e">>, <<<<"g">>>>>> >>,
                      << <<<<"e">>, <<<<"g">>, <<"k">>>>>> >>}}

NoText == [blocks |-> <<>>, end |-> <<>>]

InitRoundTrip ==
    /\ \E r \in RoundTripRecords :
           rt = [pc |-> "record", record |-> r, text |-> NoText,
                 parsed |-> [exc |-> FALSE, data |-> Record]]
    /\ ConsumerIdle /\ UnwrapIdle /\ IterIdle

Write ==
    /\ rt.pc = "record"
    /\ rt' = [rt EXCEPT !.pc = "written", !.text = __str__(rt.record)]
    /\ UNCHANGED <<consumerVars, unwrapVars, iterVars>>

Parse ==
    /\ rt.pc = "written"
    /\ rt' = [rt EXCEPT !.pc = "parsed", !.parsed = parse_text(rt.text)]
    /\ UNCHANGED <<consumerVars, unwrapVars, iterVars>>

NextRoundTrip == Write \/ Parse

SpecRoundTrip == InitRoundTrip /\ [][NextRoundTrip]_vars

OneIdDblinks(r) == \A k \in 1..Len(r.dblinks) : Len(r.dblinks[k][2]) = 1

\* C5 (as claimed): a Record whose dblinks entries each carry one id, written
\* with str() and parsed back, gives a Record equal to it field for field.
C5_RoundTrip ==
    (rt.pc = "parsed" /\ OneIdDblinks(rt.record))
    => (~rt.parsed.exc /\ rt.parsed.data = rt.record)

\* what does hold: every field but reaction and comment comes back as it
\* was written
C5_OtherFields ==
    (rt.pc = "parsed" /\ OneIdDblinks(rt.record))
    => /\ ~rt.parsed.exc
       /\ [rt.parsed.data EXCEPT !.reaction = <<>>, !.comment = <<>>]
              = [rt.record EXCEPT !.reaction = <<>>, !.comment = <<>>]

\* and reaction and comment come back as written when no line of theirs
\* is longer than the data width
C5_ShortLines ==
    (rt.pc = "parsed"
        /\ (\A k \in 1..Len(rt.record.reaction) :
               Len(rt.record.reaction[k]) <= KEGG_DATA_LENGTH)
        /\ (\A j \in 1..Len(rt.record.comment) :
               Len(rt.record.comment[j]) <= KEGG_DATA_LENGTH))
    => /\ rt.parsed.data.reaction = rt.record.reaction
       /\ rt.parsed.data.comment = rt.record.comment

-----------------------------------------------------------------------------
(* SpecEntry: a Record with some entry string is written, and the entry   *)
(* callback is made on the value of the ENTRY block.                      *)

MaxEntryLen == 3

EntryAlphabet == {"E", "1", SP}

RECURSIVE EntriesOfLen(_)
EntriesOfLen(n) ==
    IF n = 0 THEN {<<>>}
    ELSE {Append(t, ch) : t \in EntriesOfLen(n - 1), ch \in EntryAlphabet}

EntryStrings ==
    UNION {EntriesOfLen(n) : n \in 0..MaxEntryLen}
    \cup {<<"1", ".", "1", ".", "1", ".", "1">>}

InitEntry ==
    /\ \E e \in EntryStrings :
           rt = [pc |-> "record", record |-> [Record EXCEPT !.entry = e],
                 text |-> NoText,
                 parsed |-> [exc |-> FALSE, data |-> Record]]
    /\ ConsumerIdle /\ UnwrapIdle /\ IterIdle

\* the value the ENTRY block of the written text carries
EntryValue(text) == text.blocks[1].entries[1]

\* self.entry(entry) on the written value
Entry_callback ==
    /\ rt.pc = "written"
    /\ \E r \in {entry(consumer, <<EntryValue(rt.text)>>)} :
           consumer' = r.c
    /\ rt' = [rt EXCEPT !.pc = "fed"]
    /\ UNCHANGED <<last, nEvents, trace, recent, sched, unwrapVars, iterVars>>

NextEntry == Write \/ Entry_callback

SpecEntry == InitEntry /\ [][NextEntry]_vars

\* C11: the ENTRY block of a written Record carries "EC " + entry, and the
\* entry callback on that value sets record.entry to the value without its
\* first three characters, which is the entry the Record was written from
\* ("EC 1.1.1.1" gives "1.1.1.1").
C11_EntryStripping ==
    /\ rt.pc \in {"written", "fed"}
           => /\ rt.text.blocks[1].tag = "ENTRY"
              /\ EntryValue(rt.text) = <<"E", "C", SP>> \o rt.record.entry
    /\ rt.pc = "fed"
           => /\ Len(data.entry) = Len(EntryValue(rt.text)) - 3
              /\ \A i \in 1..Len(data.entry) :
                     data.entry[i] = EntryValue(rt.text)[i + 3]
              /\ data.entry = rt.record.entry
              /\ [data EXCEPT !.entry = <<>>] = Record

C11_Witness ==
    /\ rt.pc = "fed"
    /\ EntryValue(rt.text) = <<"E", "C", SP, "1", ".", "1", ".", "1", ".", "1">>
    /\ data.entry = <<"1", ".", "1", ".", "1", ".", "1">>

-----------------------------------------------------------------------------
(* SpecWrite: str() of a Record with any few of its fields filled in *)

MaxFields == 3

\* the fields in the order __str__ writes them, each with its tag
FieldOrder ==
    <<[field |-> "entry", tag |-> "ENTRY"],
      [field |-> "name", tag |-> "NAME"],
      [field |-> "classname", tag |-> "CLASS"],
      [field |-> "sysname", tag |-> "SYSNAME"],
      [field |-> "reaction", tag |-> "REACTION"],
      [field |-> "substrate", tag |-> "SUBSTRATE"],
      [field |-> "product", tag |-> "PRODUCT"],
      [field |-> "inhibitor", tag |-> "INHIBITOR"],
      [field |-> "cofactor", tag |-> "COFACTOR"],
      [field |-> "effector", tag |-> "EFFECTOR"],
      [field |-> "comment", tag |-> "COMMENT"],
      [field |-> "pathway", tag |-> "PATHWAY"],
      [field |-> "genes", tag |-> "GENES"],
      [field |-> "disease", tag |-> "DISEASE"],
      [field |-> "motif", tag |-> "MOTIF"],
      [field |-> "structures", tag |-> "STRUCTURES"],
      [field |-> "dblinks", tag |-> "DBLINKS"]>>

Fields == {FieldOrder[k].field : k \in 1..Len(FieldOrder)}

SampleValue(f) ==
    CASE f = "entry" -> <<"1", ".", "2">>
      [] f \in {"pathway", "disease", "motif"}
             -> << <<<<"d">>, <<"i">>, <<"x">>>>, <<<<"e">>, <<"i">>, <<"y">>>> >>
      [] f \in {"genes", "structures", "dblinks"}
             -> << <<<<"d">>, <<<<"g">>, <<"k">>>>>> >>
      [] OTHER -> <<Short, <<"c">>>>

WriteRecords ==
    {[f \in Fields |-> IF f \in F THEN SampleValue(f) ELSE <<>>] :
        F \in {G \in SUBSET Fields : Cardinality(G) <= MaxFields}}

InitWrite ==
    /\ \E r \in WriteRecords :
           rt = [pc |-> "record", record |-> r, text |-> NoText,
                 parsed |-> [exc |-> FALSE, data |-> Record]]
    /\ ConsumerIdle /\ UnwrapIdle /\ IterIdle

NextWrite == Write

SpecWrite == InitWrite /\ [][NextWrite]_vars

TagsOf(text) == [k \in 1..Len(text.blocks) |-> text.blocks[k].tag]

RECURSIVE TagsFrom(_, _)
TagsFrom(r, k) ==
    IF k > Len(FieldOrder) THEN <<>>
    ELSE (IF r[FieldOrder[k].field] # <<>> THEN <<FieldOrder[k].tag>>
          ELSE <<>>) \o TagsFrom(r, k + 1)

\* C12 (as claimed): the written text has, in the fixed order of the tags,
\* one block for each non-empty field and none for an empty field, the
\* entry included, and ends with the line `///`.
C12_WriterLayout ==
    rt.pc = "written"
    => /\ TagsOf(rt.text) = TagsFrom(rt.record, 1)
       /\ rt.text.end = <<"/", "/", "/">>

\* what does hold: the ENTRY block is always there, and after it one block
\* for each non-empty field in the fixed order, then `///`
C12_LayoutAfterEntry ==
    rt.pc = "written"
    => /\ TagsOf(rt.text) = <<"ENTRY">> \o TagsFrom(rt.record, 2)
       /\ rt.text.end = <<"/", "/", "/">>

-----------------------------------------------------------------------------
(* SpecDblinks: two Records are written, one after the other, and their   *)
(* texts compared.                                                        *)

MaxIds == 2

RECURSIVE IdListsOfLen(_)
IdListsOfLen(n) ==
    IF n = 0 THEN {<<>>}
    ELSE {Append(t, <<ch>>) : t \in IdListsOfLen(n - 1), ch \in {"g", "k"}}

\* id lists as dblinks_id stores them: at least one id
IdLists == UNION {IdListsOfLen(n) : n \in 1..MaxIds}

Links == {<<db, ids>> : db \in {<<"d">>, <<"e">>}, ids \in IdLists}

LinkLists ==
    {<<>>} \cup {<<l>> : l \in Links}
    \cup {<<l, <<<<"e">>, ids>>>> :
             l \in Links, ids \in {<<<<"g">>>>, <<<<"g">>, <<"k">>>>}}

DblinksRecords ==
    {[Record EXCEPT !.entry = e, !.dblinks = ll] :
        e \in {<<>>, <<"1">>}, ll \in LinkLists}

InitDblinks ==
    /\ \E r1 \in DblinksRecords, r2 \in DblinksRecords :
           rt = [pc |-> "pair", record |-> r1, other |-> r2,
                 text |-> NoText, text2 |-> NoText]
    /\ ConsumerIdle /\ UnwrapIdle /\ IterIdle

WriteFirst ==
    /\ rt.pc = "pair"
    /\ rt' = [rt EXCEPT !.pc = "one", !.text = __str__(rt.record)]
    /\ UNCHANGED <<consumerVars, unwrapVars, iterVars>>

WriteSecond ==
    /\ rt.pc = "one"
    /\ rt' = [rt EXCEPT !.pc = "both", !.text2 = __str__(rt.other)]
    /\ UNCHANGED <<consumerVars, unwrapVars, iterVars>>

NextDblinks == WriteFirst \/ WriteSecond

SpecDblinks == InitDblinks /\ [][NextDblinks]_vars

\* r1 and r2 are the same but for the second and later ids of their
\* dblinks entries
SameButLaterIds(r1, r2) ==
    /\ [r1 EXCEPT !.dblinks = <<>>] = [r2 EXCEPT !.dblinks = <<>>]
    /\ Len(r1.dblinks) = Len(r2.dblinks)
    /\ \A k \in 1..Len(r1.dblinks) :
           /\ r1.dblinks[k][1] = r2.dblinks[k][1]
           /\ r1.dblinks[k][2][1] = r2.dblinks[k][2][1]

BlockOf(text, tag) ==
    SelectSeq(text.blocks, LAMBDA b : b.tag = tag)

\* C15: the DBLINKS block of a written Record has one line per dblinks
\* entry, made of the entry's db, ": " and the first id of its id list;
\* so two Records that differ only in the second and later ids of their
\* dblinks entries are written as the same text.
C15_FirstIdOnly ==
    /\ (rt.pc \in {"one", "both"} /\ rt.record.dblinks # <<>>)
           => /\ Len(BlockOf(rt.text, "DBLINKS")) = 1
              /\ BlockOf(rt.text, "DBLINKS")[1].entries =
                     [k \in 1..Len(rt.record.dblinks) |->
                         rt.record.dblinks[k][1] \o <<":", SP>> \o
                         rt.record.dblinks[k][2][1]]
    /\ (rt.pc = "both" /\ SameButLaterIds(rt.record, rt.other))
           => rt.text = rt.text2

C15_Witness ==
    /\ rt.pc = "both"
    /\ rt.record.dblinks = << << <<"d">>, <<<<"g">>>> >> >>
    /\ rt.other.dblinks = << << <<"d">>, <<<<"g">>, <<"k">>>> >> >>
    /\ rt.record.entry = rt.other.entry
    /\ rt.text = rt.text2
    /\ BlockOf(rt.text, "DBLINKS")[1].entries = <<<<"d", ":", SP, "g">>>>

-----------------------------------------------------------------------------
(* SpecInterleave: the events of two units (a group of one kind, or one   *)
(* simple-field event) are fed to one consumer in any interleaving that   *)
(* keeps each unit's own order.                                           *)

Unit(owner, events) == [owner |-> owner, events |-> events]

GroupUnits ==
    UNION {
        IF Len(GroupTags(k)) = 3
        THEN {Unit(k, <<Ev(GroupTags(k)[1], v1), Ev(GroupTags(k)[2], v2),
                        Ev(GroupTags(k)[3], v3)>>) :
                 v1 \in ValuesOf(GroupTags(k)[1]),
                 v2 \in ValuesOf(GroupTags(k)[2]),
                 v3 \in ValuesOf(GroupTags(k)[3])}
        ELSE {Unit(k, <<Ev(GroupTags(k)[1], v1), Ev(GroupTags(k)[2], v2)>>) :
                 v1 \in ValuesOf(GroupTags(k)[1]),
                 v2 \in ValuesOf(GroupTags(k)[2])} :
        k \in Kinds}

SimpleUnits ==
    UNION {{Unit(t, <<Ev(t, v)>>) : v \in ValuesOf(t)} :
              t \in SimpleTags \cup {"record_end"}}

Units == GroupUnits \cup SimpleUnits

InitInterleave ==
    /\ \E a \in Units, b \in Units :
           /\ a.owner # b.owner
           /\ sched = [pc |-> "feeding", a |-> a, b |-> b, ia |-> 0,
                       ib |-> 0, order |-> <<>>]
    /\ consumer = _Consumer /\ last = NoEvent /\ nEvents = 0
    /\ trace = NoTrace /\ recent = NoRecent
    /\ OtherIdle

\* the next event of one unit, through the event generator; a callback
\* that raises ends the feed
FeedEvent(e, after) ==
    \E r \in {Dispatch(e.tag, consumer, e.values)} :
        /\ consumer' = r.c
        /\ last' = [tag |-> e.tag, values |-> e.values, raised |-> r.exc]
        /\ nEvents' = nEvents + 1
        /\ sched' = [after EXCEPT !.pc = IF r.exc THEN "raised" ELSE @]
        /\ UNCHANGED <<trace, recent, unwrapVars, iterVars, rtVars>>

Feed_a ==
    /\ sched.pc = "feeding" /\ sched.ia < Len(sched.a.events)
    /\ FeedEvent(sched.a.events[sched.ia + 1],
                 [sched EXCEPT !.ia = @ + 1, !.order = Append(@, "a")])

Feed_b ==
    /\ sched.pc = "feeding" /\ sched.ib < Len(sched.b.events)
    /\ FeedEvent(sched.b.events[sched.ib + 1],
                 [sched EXCEPT !.ib = @ + 1, !.order = Append(@, "b")])

NextInterleave == Feed_a \/ Feed_b

SpecInterleave == InitInterleave /\ [][NextInterleave]_vars

\* the Record field a callback may assign or append to, and the buffer it
\* may change ("" when none)
OwnField(tag) ==
    IF tag \in SimpleTags THEN tag
    ELSE IF \E k \in Kinds : \E i \in 1..Len(GroupTags(k)) :
                GroupTags(k)[i] = tag
    THEN CHOOSE k \in Kinds : \E i \in 1..Len(GroupTags(k)) :
                GroupTags(k)[i] = tag
    ELSE ""

BufferNames ==
    {"_current_path", "_current_organism", "_current_motif",
     "_current_disease", "_current_dblinks", "_current_structure_db"}

OwnBuffer(tag) ==
    CASE OwnField(tag) = "pathway" -> "_current_path"
      [] OwnField(tag) = "genes" -> "_current_organism"
      [] OwnField(tag) = "disease" -> "_current_disease"
      [] OwnField(tag) = "motif" -> "_current_motif"
      [] OwnField(tag) = "structures" -> "_current_structure_db"
      [] OwnField(tag) = "dblinks" -> "_current_dblinks"
      [] OTHER -> ""

\* a callback leaves every Record field but its own, and every buffer but
\* its own group's, as they were
FrameStep ==
    /\ \A f \in DOMAIN Record :
           f # OwnField(last'.tag) => consumer'.data[f] = consumer.data[f]
    /\ \A b \in BufferNames :
           b # OwnBuffer(last'.tag) => consumer'[b] = consumer[b]

\* the events of unit a, then those of unit b, fed to a new consumer
OneAfterAnother(a, b) == ApplyEvents(_Consumer, a.events \o b.events)

InterleaveDone ==
    /\ sched.pc = "feeding"
    /\ sched.ia = Len(sched.a.events) /\ sched.ib = Len(sched.b.events)

\* whatever the interleaving, the Record is the one the two units give
\* when fed one after the other
SameAsOneAfterAnother ==
    InterleaveDone
    => /\ ~OneAfterAnother(sched.a, sched.b).exc
       /\ consumer.data = OneAfterAnother(sched.a, sched.b).c.data
       /\ consumer = OneAfterAnother(sched.a, sched.b).c

\* C16: every callback changes only its own Record field, or its own
\* group's buffer and Record list, and leaves every other field and buffer
\* unchanged; hence the sub-events of two different kinds of group fed
\* interleaved give the same Record as the two groups fed one after the
\* other.
C16_Frame == [][FrameStep]_vars /\ []SameAsOneAfterAnother

C16_Witness ==
    /\ InterleaveDone
    /\ sched.a.owner = "pathway" /\ sched.b.owner = "disease"
    /\ sched.order = <<"a", "b", "a", "b", "a", "b">>
    /\ data.pathway = << << <<"d">>, <<"i">>, <<"x", SP, "y">> >> >>
    /\ data.disease = << << <<"e">>, <<"i">>, <<"x">> >> >>

====
